---- MODULE Spec2Model ----
(***************************************************************************)
(* Model of reqwest-hickory-resolver (src/lib.rs): HickoryResolver, its    *)
(* builder methods, the lazily initialised shared resolver cell and the    *)
(* resolve future.                                                         *)
(***************************************************************************)
EXTENDS Integers, Sequences, FiniteSets, TLC

\* ---------------------------------------------------------------- bounds
NumInst == 2        \* HickoryResolver values created in one behaviour
MaxConfig == 3      \* default/clone/with_options/with_shuffle calls in one behaviour
NumCalls == 2       \* resolve futures alive at once
NumIPs == 2         \* distinct IP addresses a lookup can return
MaxAddrs == 2       \* longest address list a lookup returns
MaxSeed == 0        \* seeds from_os_rng can draw: 0..MaxSeed

Insts == 1..NumInst
Cells == 1..NumInst         \* one OnceLock allocation per default() at most
Calls == 1..NumCalls
IPs == 1..NumIPs
Seeds == 0..MaxSeed

\* ------------------------------------------------------------ data model
\* Option<ResolverOpts>: None, or the options value a caller supplied
NoOpts == "None"
UserOpts == {"o1", "o2"}
\* options the builder starts from: read from the system configuration, or
\* ResolverOpts::default() on the fallback path
SysOpts == "sys"
DefaultOpts == "default"

\* Option<SmallRng>: None, or a generator state
NoRng == -1
RngMod == 7
RngMul == 3
RngInc == 1
RngStates == 0..(RngMod - 1)

\* the empty OnceLock slot
NoResolver == [id |-> << >>, config |-> "none", options |-> "none"]

\* a struct slot that holds no HickoryResolver yet
NoInst == [state |-> 0, opts |-> NoOpts, rng |-> NoRng]

\* lookup outcomes and resolve results
LookupErrors == {"nxdomain", "timeout"}
NoLookup == [ok |-> FALSE, ips |-> << >>, err |-> "pending"]
NoResult == [ok |-> FALSE, addrs |-> << >>, err |-> "pending"]
\* what a completed future holds: the generator its clone started with, the
\* lookup's answer, the result, and the generator after the call
NoOut == [rng |-> NoRng, lookup |-> NoLookup, result |-> NoResult, rngAfter |-> NoRng]

VARIABLES
    inst,       \* inst[i]: the HickoryResolver value in slot i (state, opts, rng)
    once,       \* once[k]: state of the Once inside OnceLock k
    cell,       \* cell[k]: the value slot of OnceLock k
    pc,         \* pc[c]: position of resolve future c
    hr,         \* hr[c]: the future's clone `hickory_resolver`
    resolver,   \* resolver[c]: the reference get_or_init returned
    out,        \* out[c]: what future c completed with
    nconfig,    \* constructor and builder-method calls made
    lastShuffle,\* history: argument of the last with_shuffle applied to inst[i]
    lastOpts,   \* history: argument of the last with_options applied to inst[i]
    late,       \* history: a builder method was applied to inst[i] with its cell filled
    origin,     \* history: the default() value inst[i] was derived from
    built,      \* history: init_resolver completions per cell
    observed    \* history: resolvers get_or_init handed to callers, per cell

vars == <<inst, nconfig, once, cell, pc, hr, resolver, out,
          lastShuffle, lastOpts, late, origin, built, observed>>

instVars == <<inst, nconfig, lastShuffle, lastOpts, late, origin>>
cellVars == <<once, cell, built, observed>>
callVars == <<pc, hr, resolver, out>>

\* ------------------------------------------------------- builder methods
\* faulty variant: with_options that also points the value at another cell
with_options_other_cell(self, opts) ==
    [self EXCEPT !.opts = opts, !.state = (self.state % NumInst) + 1]

\* with_options (lines 73-76)
with_options(self, opts) == [self EXCEPT !.opts = opts]

\* with_shuffle (lines 81-88); seed is what SmallRng::from_os_rng() drew
with_shuffle(self, shuffle, seed) ==
    IF shuffle THEN [self EXCEPT !.rng = seed] ELSE self

\* #[derive(Default)]: a new Arc<OnceLock>, no options, no generator
default(k) == [state |-> k, opts |-> NoOpts, rng |-> NoRng]

\* faulty variant: clone allocates a cell of its own instead of sharing the Arc
clone_deep(self) ==
    [self EXCEPT !.state = (self.state % NumInst) + 1]

\* #[derive(Clone)]: Arc::clone of state, copies of opts and rng
clone(self) == [state |-> self.state, opts |-> self.opts, rng |-> self.rng]

\* --------------------------------------------------------- init_resolver
\* Resolver::builder(..).unwrap_or_else(|_| Resolver::builder_with_config(
\* ResolverConfig::default(), ..)) (lines 95-101)
\* faulty variant: no fallback, a failed discovery leaves no builder
NewBuilderNoFallback(sysOk) ==
    IF sysOk THEN [config |-> "system", options |-> SysOpts]
    ELSE [config |-> "none", options |-> "none"]

NewBuilder(sysOk) ==
    IF sysOk THEN [config |-> "system", options |-> SysOpts]
    ELSE [config |-> "default", options |-> DefaultOpts]

\* mem::replace(dest, src): stores src in the place dest names, returns the old
\* content. mem is the memory, as a function from places to contents.
mem_replace(mem, dest, src) ==
    [mem |-> [mem EXCEPT ![dest] = src], old |-> mem[dest]]

\* lines 103-105. builder.options_mut() evaluates to a reference to the
\* builder's options; the statement takes `&mut` of that temporary, so the
\* place mem::replace writes is the temporary holding the reference (and what
\* it stores there is the reference `&mut opt`), not the builder's options.
ApplyOpts(builder, selfOpts) ==
    IF selfOpts = NoOpts THEN builder
    ELSE LET mem == [options |-> builder.options,     \* builder.options field
                     opt |-> selfOpts,                \* local `opt`
                     tmp |-> "&options"]              \* temporary: options_mut()
             after == mem_replace(mem, "tmp", "&opt").mem
         IN  [builder EXCEPT !.options = after.options]

\* init_resolver (lines 94-108); id names the TokioResolver that build() returns
init_resolver(self, sysOk, id) ==
    LET builder == ApplyOpts(NewBuilder(sysOk), self.opts)
    IN  [id |-> id, config |-> builder.config, options |-> builder.options]

\* ------------------------------------------------- OnceLock::get_or_init
\* Once::call_once_force runs the closure when no initialisation has completed
\* and none is running; a closure that unwound leaves the Once poisoned, which
\* call_once_force ignores
\* faulty variant: check-then-act, a caller initialises whenever the slot is still empty
CanRunInitRacy(st) == st # "COMPLETE"

\* faulty variant: no caching, every caller initialises
CanRunInitAlways(st) == TRUE

CanRunInit(st) == st \in {"INCOMPLETE", "POISONED"}

\* ------------------------------------------------------ shuffle, mapping
RngNext(s) == (RngMul * s + RngInc) % RngMod

\* faulty variant: the second store of the swap is missing
SwapOverwrite(ips, i, j) == [ips EXCEPT ![i] = ips[j]]

Swap(ips, i, j) == [ips EXCEPT ![i] = ips[j], ![j] = ips[i]]

\* SliceRandom::shuffle (line 126): for each position i, swap it with a
\* position drawn from the generator among the first i
RECURSIVE ShuffleFrom(_, _, _)
ShuffleFrom(ips, i, s) ==
    IF i > Len(ips) THEN [ips |-> ips, rng |-> s]
    ELSE ShuffleFrom(Swap(ips, i, (s % i) + 1), i + 1, RngNext(s))

shuffle(ips, s) ==
    IF Len(ips) <= 1 THEN [ips |-> ips, rng |-> s] ELSE ShuffleFrom(ips, 1, s)

\* SocketAddr::new(addr, 0) (lines 128, 130)
SocketAddrNew(ip, port) == [ip |-> ip, port |-> port]
\* faulty variant: the DNS port instead of 0
MapAddrsDnsPort(ips) == [n \in 1..Len(ips) |-> SocketAddrNew(ips[n], 53)]

MapAddrs(ips) == [n \in 1..Len(ips) |-> SocketAddrNew(ips[n], 0)]

Ok(addrs) == [ok |-> TRUE, addrs |-> addrs, err |-> "none"]
Err(e) == [ok |-> FALSE, addrs |-> << >>, err |-> e]

\* faulty variant: a failed lookup becomes an empty answer (unwrap_or_default for `?`)
ResolveBodySwallow(h, lk) ==
    IF h.rng # NoRng
    THEN LET sh == shuffle(lk.ips, h.rng)
         IN  [result |-> Ok(MapAddrs(sh.ips)), rng |-> sh.rng]
    ELSE [result |-> Ok(MapAddrs(lk.ips)), rng |-> h.rng]

\* faulty variant: without a generator of its own the call shuffles with a fixed one
ResolveBodyAlwaysShuffle(h, lk) ==
    IF ~lk.ok THEN [result |-> Err(lk.err), rng |-> h.rng]
    ELSE LET sh == shuffle(lk.ips, IF h.rng # NoRng THEN h.rng ELSE 1)
         IN  [result |-> Ok(MapAddrs(sh.ips)), rng |-> h.rng]

\* lines 119-133: what the future resolves to once lookup_ip has answered lk,
\* and the state its generator is left in
ResolveBody(h, lk) ==
    IF ~lk.ok THEN [result |-> Err(lk.err), rng |-> h.rng]             \* `?`
    ELSE IF h.rng # NoRng
         THEN LET sh == shuffle(lk.ips, h.rng)
              IN  [result |-> Ok(MapAddrs(sh.ips)), rng |-> sh.rng]
         ELSE [result |-> Ok(MapAddrs(lk.ips)), rng |-> h.rng]

\* what lookup_ip can answer
RECURSIVE SeqsUpTo(_)
SeqsUpTo(n) ==
    IF n = 0 THEN {<< >>}
    ELSE LET shorter == SeqsUpTo(n - 1)
         IN  shorter \cup {Append(s, ip) : s \in {t \in shorter : Len(t) = n - 1}, ip \in IPs}
LookupResults ==
    {[ok |-> TRUE, ips |-> s, err |-> "none"] : s \in SeqsUpTo(MaxAddrs)}
    \cup {[ok |-> FALSE, ips |-> << >>, err |-> e] : e \in LookupErrors}

\* ------------------------------------------------------------------ Init
Init ==
    /\ inst = [i \in Insts |-> NoInst]
    /\ nconfig = 0
    /\ lastShuffle = [i \in Insts |-> "never"]
    /\ lastOpts = [i \in Insts |-> "never"]
    /\ late = [i \in Insts |-> FALSE]
    /\ origin = [i \in Insts |-> 0]
    /\ once = [k \in Cells |-> "INCOMPLETE"]
    /\ cell = [k \in Cells |-> NoResolver]
    /\ built = [k \in Cells |-> 0]
    /\ observed = [k \in Cells |-> {}]
    /\ pc = [c \in Calls |-> "idle"]
    /\ hr = [c \in Calls |-> NoInst]
    /\ resolver = [c \in Calls |-> NoResolver]
    /\ out = [c \in Calls |-> NoOut]

Used(i) == inst[i] # NoInst
FreeSlot(i) == ~Used(i) /\ \A j \in Insts : j < i => Used(j)
FreeCall(c) == pc[c] = "idle" /\ \A d \in Calls : d < c => pc[d] # "idle"

\* --------------------------------------------------------------- actions
\* HickoryResolver::default(): slot i gets a value with its own new cell
Default(i) ==
    /\ FreeSlot(i) /\ nconfig < MaxConfig
    /\ inst' = [inst EXCEPT ![i] = default(i)]
    /\ lastShuffle' = [lastShuffle EXCEPT ![i] = "never"]
    /\ lastOpts' = [lastOpts EXCEPT ![i] = "never"]
    /\ late' = [late EXCEPT ![i] = FALSE]
    /\ origin' = [origin EXCEPT ![i] = i]
    /\ nconfig' = nconfig + 1
    /\ UNCHANGED <<cellVars, callVars>>

\* inst[i].clone()
Clone(i, j) ==
    /\ Used(i) /\ FreeSlot(j) /\ nconfig < MaxConfig
    /\ inst' = [inst EXCEPT ![j] = clone(inst[i])]
    /\ lastShuffle' = [lastShuffle EXCEPT ![j] = lastShuffle[i]]
    /\ lastOpts' = [lastOpts EXCEPT ![j] = lastOpts[i]]
    /\ late' = [late EXCEPT ![j] = late[i]]
    /\ origin' = [origin EXCEPT ![j] = origin[i]]
    /\ nconfig' = nconfig + 1
    /\ UNCHANGED <<cellVars, callVars>>

\* inst[i] = inst[i].with_options(o)
WithOptions(i, o) ==
    /\ Used(i) /\ nconfig < MaxConfig
    /\ inst' = [inst EXCEPT ![i] = with_options(inst[i], o)]
    /\ lastOpts' = [lastOpts EXCEPT ![i] = o]
    /\ late' = [late EXCEPT ![i] = @ \/ cell[inst[i].state] # NoResolver]
    /\ nconfig' = nconfig + 1
    /\ UNCHANGED <<lastShuffle, origin, cellVars, callVars>>

\* inst[i] = inst[i].with_shuffle(b)
WithShuffle(i, b) ==
    /\ Used(i) /\ nconfig < MaxConfig
    /\ \E seed \in Seeds : inst' = [inst EXCEPT ![i] = with_shuffle(inst[i], b, seed)]
    /\ lastShuffle' = [lastShuffle EXCEPT ![i] = IF b THEN "true" ELSE "false"]
    /\ late' = [late EXCEPT ![i] = @ \/ cell[inst[i].state] # NoResolver]
    /\ nconfig' = nconfig + 1
    /\ UNCHANGED <<lastOpts, origin, cellVars, callVars>>

\* faulty variant: resolve steps the generator of the value itself before it
\* hands a copy to the future
ResolveStepping(i, c) ==
    /\ Used(i) /\ FreeCall(c)
    /\ pc' = [pc EXCEPT ![c] = "created"]
    /\ hr' = [hr EXCEPT ![c] = clone(inst[i])]
    /\ inst' = [inst EXCEPT ![i].rng = IF @ = NoRng THEN @ ELSE RngNext(@)]
    /\ UNCHANGED <<nconfig, lastShuffle, lastOpts, late, origin, cellVars, resolver, out>>

\* faulty variant: get_or_init is called in resolve itself, outside the async
\* block, so the resolver is built when the future is made
ResolveEager(i, c) ==
    /\ Used(i) /\ FreeCall(c)
    /\ pc' = [pc EXCEPT ![c] = "created"]
    /\ hr' = [hr EXCEPT ![c] = clone(inst[i])]
    /\ LET k == inst[i].state IN
       IF once[k] = "INCOMPLETE"
       THEN /\ cell' = [cell EXCEPT ![k] = init_resolver(inst[i], TRUE, <<k, built[k] + 1>>)]
            /\ once' = [once EXCEPT ![k] = "COMPLETE"]
            /\ built' = [built EXCEPT ![k] = @ + 1]
       ELSE UNCHANGED <<once, cell, built>>
    /\ UNCHANGED <<instVars, observed, resolver, out>>

\* inst[i].resolve(name): line 113 clones self into the future; nothing else
\* runs until the future is polled
Resolve(i, c) ==
    /\ Used(i) /\ FreeCall(c)
    /\ pc' = [pc EXCEPT ![c] = "created"]
    /\ hr' = [hr EXCEPT ![c] = clone(inst[i])]
    /\ UNCHANGED <<instVars, cellVars, resolver, out>>

\* first poll, lines 115-119, cell already filled: get_or_init returns the
\* stored resolver and lookup_ip is issued
GetFilled(c) ==
    /\ pc[c] = "created"
    /\ once[hr[c].state] = "COMPLETE"
    /\ resolver' = [resolver EXCEPT ![c] = cell[hr[c].state]]
    /\ observed' = [observed EXCEPT ![hr[c].state] = @ \cup {cell[hr[c].state]}]
    /\ pc' = [pc EXCEPT ![c] = "await"]
    /\ UNCHANGED <<instVars, once, cell, built, hr, out>>

\* first poll, cell empty and no initialisation running: this caller runs the
\* closure || init_resolver(). Callers that find the Once RUNNING wait inside
\* get_or_init, their pc unchanged.
BeginInit(c) ==
    /\ pc[c] = "created"
    /\ CanRunInit(once[hr[c].state])
    /\ once' = [once EXCEPT ![hr[c].state] = "RUNNING"]
    /\ pc' = [pc EXCEPT ![c] = "init"]
    /\ UNCHANGED <<instVars, cell, built, observed, hr, resolver, out>>

\* faulty variant: the value is stored but the Once is never completed, so the
\* callers waiting in get_or_init are never released
FinishInitNoWake(c) ==
    /\ pc[c] = "init"
    /\ LET k == hr[c].state IN
       \E sysOk \in BOOLEAN :
        /\ cell' = [cell EXCEPT ![k] = init_resolver(hr[c], sysOk, <<k, built[k] + 1>>)]
        /\ built' = [built EXCEPT ![k] = @ + 1]
        /\ resolver' = [resolver EXCEPT ![c] = cell'[k]]
        /\ observed' = [observed EXCEPT ![k] = @ \cup {cell'[k]}]
    /\ pc' = [pc EXCEPT ![c] = "await"]
    /\ UNCHANGED <<instVars, once, hr, out>>

\* init_resolver returns: the value is stored, the Once completes, get_or_init
\* returns a reference to the slot and lookup_ip is issued
FinishInit(c) ==
    /\ pc[c] = "init"
    /\ LET k == hr[c].state IN
       \E sysOk \in BOOLEAN :
        /\ cell' = [cell EXCEPT ![k] = init_resolver(hr[c], sysOk, <<k, built[k] + 1>>)]
        /\ once' = [once EXCEPT ![k] = "COMPLETE"]
        /\ built' = [built EXCEPT ![k] = @ + 1]
        /\ resolver' = [resolver EXCEPT ![c] = cell'[k]]
        /\ observed' = [observed EXCEPT ![k] = @ \cup {cell'[k]}]
    /\ pc' = [pc EXCEPT ![c] = "await"]
    /\ UNCHANGED <<instVars, hr, out>>

\* init_resolver has no error result (line 94): when building the resolver
\* fails, the closure unwinds through get_or_init and out of the poll; the
\* Once is left poisoned and the slot empty
InitUnwinds(c) ==
    /\ pc[c] = "init"
    /\ once' = [once EXCEPT ![hr[c].state] = "POISONED"]
    /\ pc' = [pc EXCEPT ![c] = "panicked"]
    /\ hr' = [hr EXCEPT ![c] = NoInst]
    /\ UNCHANGED <<instVars, cell, built, observed, resolver, out>>

\* faulty variant: the generator is shared, not copied: the shuffle of one
\* call steps the generator the other live calls hold
LookupDoneShared(c) ==
    /\ pc[c] = "await"
    /\ \E lk \in LookupResults :
        LET body == ResolveBody(hr[c], lk) IN
        /\ out' = [out EXCEPT ![c] = [rng |-> hr[c].rng, lookup |-> lk,
                                      result |-> body.result, rngAfter |-> body.rng]]
        /\ hr' = [d \in Calls |->
                    IF d = c THEN NoInst
                    ELSE IF hr[d] = NoInst THEN NoInst
                    ELSE [hr[d] EXCEPT !.rng = body.rng]]
    /\ pc' = [pc EXCEPT ![c] = "done"]
    /\ resolver' = [resolver EXCEPT ![c] = NoResolver]
    /\ UNCHANGED <<instVars, cellVars>>

\* lookup_ip answers and the future runs to completion (lines 119-133)
LookupDone(c) ==
    /\ pc[c] = "await"
    /\ \E lk \in LookupResults :
        LET body == ResolveBody(hr[c], lk) IN
        out' = [out EXCEPT ![c] = [rng |-> hr[c].rng, lookup |-> lk,
                                   result |-> body.result, rngAfter |-> body.rng]]
    /\ pc' = [pc EXCEPT ![c] = "done"]
    /\ hr' = [hr EXCEPT ![c] = NoInst]
    /\ resolver' = [resolver EXCEPT ![c] = NoResolver]
    /\ UNCHANGED <<instVars, cellVars>>

\* faulty variant: the future can also be dropped while get_or_init runs, as
\* if obtaining the resolver were a suspension point
DropFutureAnywhere(c) ==
    /\ pc[c] \in {"created", "init", "await"}
    /\ pc' = [pc EXCEPT ![c] = "idle"]
    /\ hr' = [hr EXCEPT ![c] = NoInst]
    /\ resolver' = [resolver EXCEPT ![c] = NoResolver]
    /\ UNCHANGED <<instVars, cellVars, out>>

\* the future is dropped before it completed: never polled, or suspended at
\* the await of line 119
DropFuture(c) ==
    /\ pc[c] \in {"created", "await"}
    /\ pc' = [pc EXCEPT ![c] = "idle"]
    /\ hr' = [hr EXCEPT ![c] = NoInst]
    /\ resolver' = [resolver EXCEPT ![c] = NoResolver]
    /\ UNCHANGED <<instVars, cellVars, out>>

\* the caller takes the result of a completed future, or the runtime reaps the
\* task that panicked
Take(c) ==
    /\ pc[c] \in {"done", "panicked"}
    /\ pc' = [pc EXCEPT ![c] = "idle"]
    /\ out' = [out EXCEPT ![c] = NoOut]
    /\ UNCHANGED <<instVars, cellVars, hr, resolver>>

Next ==
    \/ \E i \in Insts : Default(i)
    \/ \E i, j \in Insts : Clone(i, j)
    \/ \E i \in Insts, o \in UserOpts : WithOptions(i, o)
    \/ \E i \in Insts, b \in BOOLEAN : WithShuffle(i, b)
    \/ \E i \in Insts, c \in Calls : Resolve(i, c)
    \/ \E c \in Calls : GetFilled(c)
    \/ \E c \in Calls : BeginInit(c)
    \/ \E c \in Calls : FinishInit(c)
    \/ \E c \in Calls : InitUnwinds(c)
    \/ \E c \in Calls : LookupDone(c)
    \/ \E c \in Calls : DropFuture(c)
    \/ \E c \in Calls : Take(c)

Spec == Init /\ [][Next]_vars


\* the builder methods and resolve calls made one after another: a single
\* future is alive at a time
NextSeq ==
    \/ \E i \in Insts : Default(i)
    \/ \E i, j \in Insts : Clone(i, j)
    \/ \E i \in Insts, o \in UserOpts : WithOptions(i, o)
    \/ \E i \in Insts, b \in BOOLEAN : WithShuffle(i, b)
    \/ \E i \in Insts : Resolve(i, 1)
    \/ GetFilled(1)
    \/ BeginInit(1)
    \/ FinishInit(1)
    \/ InitUnwinds(1)
    \/ LookupDone(1)
    \/ DropFuture(1)
    \/ Take(1)

SpecSeq == Init /\ [][NextSeq]_vars

\* concurrent resolve calls on values that share one cell: a value that is
\* default() or default().with_shuffle(true), and its clones; no builder
\* method is called afterwards
InitRace ==
    /\ \/ /\ inst = [i \in Insts |-> clone(default(1))]
          /\ lastShuffle = [i \in Insts |-> "never"]
       \/ \E s \in Seeds :
          /\ inst = [i \in Insts |-> clone(with_shuffle(default(1), TRUE, s))]
          /\ lastShuffle = [i \in Insts |-> "true"]
    /\ nconfig = MaxConfig
    /\ lastOpts = [i \in Insts |-> "never"]
    /\ late = [i \in Insts |-> FALSE]
    /\ origin = [i \in Insts |-> 1]
    /\ once = [k \in Cells |-> "INCOMPLETE"]
    /\ cell = [k \in Cells |-> NoResolver]
    /\ built = [k \in Cells |-> 0]
    /\ observed = [k \in Cells |-> {}]
    /\ pc = [c \in Calls |-> "idle"]
    /\ hr = [c \in Calls |-> NoInst]
    /\ resolver = [c \in Calls |-> NoResolver]
    /\ out = [c \in Calls |-> NoOut]

NextRace ==
    \/ \E i \in Insts, c \in Calls : Resolve(i, c)
    \/ \E c \in Calls : GetFilled(c)
    \/ \E c \in Calls : BeginInit(c)
    \/ \E c \in Calls : FinishInit(c)
    \/ \E c \in Calls : InitUnwinds(c)
    \/ \E c \in Calls : LookupDone(c)
    \/ \E c \in Calls : DropFuture(c)
    \/ \E c \in Calls : Take(c)

SpecRace == InitRace /\ [][NextRace]_vars

\* the lookup of a racing call answers with an error or with at most one
\* address: which addresses come back has no part in the progress of the race
LookupDoneShort(c) ==
    /\ LookupDone(c)
    /\ Len(out'[c].lookup.ips) <= 1

NextRaceShort ==
    \/ \E i \in Insts, c \in Calls : Resolve(i, c)
    \/ \E c \in Calls : GetFilled(c)
    \/ \E c \in Calls : BeginInit(c)
    \/ \E c \in Calls : FinishInit(c)
    \/ \E c \in Calls : InitUnwinds(c)
    \/ \E c \in Calls : LookupDoneShort(c)
    \/ \E c \in Calls : DropFuture(c)
    \/ \E c \in Calls : Take(c)

\* fair scheduling of the racing calls: a future that was made is polled and
\* get_or_init goes on when it can, init_resolver returns or unwinds, and the
\* lookup answers. Dropping a future and taking a result are never forced.
FairRace ==
    \A c \in Calls :
        /\ WF_vars(GetFilled(c) \/ BeginInit(c))
        /\ WF_vars(FinishInit(c) \/ InitUnwinds(c))
        /\ WF_vars(LookupDoneShort(c))

SpecRaceFair == InitRace /\ [][NextRaceShort]_vars /\ FairRace

\* resolve on one value, one call after another: the value is default(), or
\* default().with_shuffle(b) with the generator seeded in any of its states
InitBody ==
    /\ \/ /\ inst = [i \in Insts |-> IF i = 1 THEN default(1) ELSE NoInst]
          /\ lastShuffle = [i \in Insts |-> "never"]
       \/ \E b \in BOOLEAN, s \in RngStates :
          /\ inst = [i \in Insts |-> IF i = 1 THEN with_shuffle(default(1), b, s) ELSE NoInst]
          /\ lastShuffle = [i \in Insts |-> IF i # 1 THEN "never" ELSE IF b THEN "true" ELSE "false"]
    /\ nconfig = MaxConfig
    /\ lastOpts = [i \in Insts |-> "never"]
    /\ late = [i \in Insts |-> FALSE]
    /\ origin = [i \in Insts |-> IF i = 1 THEN 1 ELSE 0]
    /\ once = [k \in Cells |-> "INCOMPLETE"]
    /\ cell = [k \in Cells |-> NoResolver]
    /\ built = [k \in Cells |-> 0]
    /\ observed = [k \in Cells |-> {}]
    /\ pc = [c \in Calls |-> "idle"]
    /\ hr = [c \in Calls |-> NoInst]
    /\ resolver = [c \in Calls |-> NoResolver]
    /\ out = [c \in Calls |-> NoOut]

NextBody ==
    \/ Resolve(1, 1)
    \/ GetFilled(1)
    \/ BeginInit(1)
    \/ FinishInit(1)
    \/ InitUnwinds(1)
    \/ LookupDone(1)
    \/ DropFuture(1)
    \/ Take(1)

SpecBody == InitBody /\ [][NextBody]_vars

\* ---------------------------------------------------------------- claims
Filled(k) == cell[k] # NoResolver
Done(c) == pc[c] = "done"
Ips(c) == out[c].lookup.ips
Addrs(c) == out[c].result.addrs
Count(seq, x) == Cardinality({n \in 1..Len(seq) : seq[n] = x})

\* C1: callers of get_or_init on one cell all get the same resolver: the
\* resolvers handed out for a cell are at most one, and any two futures that
\* reached the lookup on the same cell hold the same resolver.
C1_OneResolverObserved ==
    /\ \A k \in Cells : Cardinality(observed[k]) <= 1
    /\ \A c, d \in Calls :
        (pc[c] = "await" /\ pc[d] = "await" /\ hr[c].state = hr[d].state)
            => resolver[c] = resolver[d]

\* two futures on one cell are both past get_or_init, suspended in the lookup
C1_Witness ==
    \E c, d \in Calls :
        /\ c # d /\ pc[c] = "await" /\ pc[d] = "await"
        /\ hr[c].state = hr[d].state
        /\ resolver[c] # NoResolver

\* C2: init_resolver completes at most once per cell, and while a cell holds a
\* value no future is running init_resolver for it.
C2_BuiltAtMostOnce ==
    \A k \in Cells :
        /\ built[k] <= 1
        /\ Filled(k) => \A c \in Calls : ~(pc[c] = "init" /\ hr[c].state = k)

\* a resolve has completed, another on the only cell touched is past
\* get_or_init, and that cell was built once
C2_Witness ==
    \E c, d \in Calls, k \in Cells :
        /\ Done(c) /\ pc[d] = "await" /\ hr[d].state = k
        /\ built[k] = 1
        /\ \A j \in Cells : j # k => built[j] = 0 /\ once[j] = "INCOMPLETE"

\* C3: when init_resolver runs for a value whose opts is Some(o), the resolver
\* it stores is configured with o.
C3_OptionsPassedThrough ==
    [][\A c \in Calls :
        (pc[c] = "init" /\ pc'[c] = "await" /\ hr[c].opts # NoOpts)
            => cell'[hr[c].state].options = hr[c].opts]_vars

\* C4: the stored options are those of the last with_options call, and a
\* value has a generator exactly when its last with_shuffle call passed true.
C4_LastSettingWins ==
    \A i \in Insts : Used(i) =>
        /\ lastOpts[i] # "never" => inst[i].opts = lastOpts[i]
        /\ (inst[i].rng # NoRng) <=> (lastShuffle[i] = "true")

\* what a resolve call on value h is answered with when the cells are `cells`:
\* the resolver (with its options) and whether the addresses are shuffled
ResolveEffect(h, cells) == [resolver |-> cells[h.state], shuffles |-> h.rng # NoRng]

\* C5 as stated: once the cell of a value is filled, no step changes what a
\* resolve call on that value is answered with (resolver, options, shuffling).
C5_FrozenAfterConstruction ==
    [][\A i \in Insts :
        (Used(i) /\ Filled(inst[i].state))
            => ResolveEffect(inst'[i], cell') = ResolveEffect(inst[i], cell)]_vars

\* C5 amended: once the cell of a value is filled, no step changes the resolver
\* (and so its options) that a resolve call on that value uses, and no step
\* disables shuffling; with_shuffle(true) still enables it.
C5_ResolverFrozenAfterConstruction ==
    [][\A i \in Insts :
        (Used(i) /\ Filled(inst[i].state))
            => /\ cell'[inst'[i].state] = cell[inst[i].state]
               /\ inst[i].rng # NoRng => inst'[i].rng # NoRng]_vars

\* a value was reconfigured while its cell was filled, it now has options and
\* a generator, and a resolve on it as it now is got the cell's resolver
C5_Witness ==
    \E i \in Insts, c \in Calls :
        /\ Used(i) /\ late[i] /\ Filled(inst[i].state)
        /\ inst[i].rng # NoRng /\ inst[i].opts # NoOpts
        /\ pc[c] = "await" /\ hr[c] = inst[i]
        /\ resolver[c] = cell[inst[i].state]

\* C6: a future whose lookup failed completes with the failure carrying the
\* lookup's error, never with a list of addresses.
C6_LookupFailurePropagates ==
    \A c \in Calls :
        (Done(c) /\ ~out[c].lookup.ok) => out[c].result = Err(out[c].lookup.err)

\* a resolve with shuffling enabled completed after its lookup failed
C6_Witness ==
    \E c \in Calls :
        Done(c) /\ ~out[c].lookup.ok /\ out[c].rng # NoRng /\ ~out[c].result.ok

\* C7: a failed construction ends the resolve call with an error result, not a
\* panic, and leaves the cell empty.
C7_ConstructionFailureIsError ==
    /\ \A c \in Calls : pc[c] # "panicked"
    /\ \A k \in Cells : once[k] = "POISONED" => ~Filled(k)

\* C8: a value on which with_shuffle(true) was never called has no generator,
\* and a future without a generator completes with exactly the lookup's
\* addresses in the lookup's order.
C8_UnshuffledKeepsOrder ==
    /\ \A i \in Insts : lastShuffle[i] = "never" => inst[i].rng = NoRng
    /\ \A c \in Calls :
        (Done(c) /\ out[c].rng = NoRng /\ out[c].lookup.ok)
            => /\ out[c].result.ok
               /\ Len(Addrs(c)) = Len(Ips(c))
               /\ \A n \in 1..Len(Ips(c)) : Addrs(c)[n].ip = Ips(c)[n]

\* a resolve on a value without a generator returned several distinct addresses
C8_Witness ==
    \E c \in Calls :
        /\ Done(c) /\ out[c].rng = NoRng /\ out[c].lookup.ok
        /\ Len(Ips(c)) >= 2 /\ Ips(c)[1] # Ips(c)[2]

\* C9: a future with a generator completes with a permutation of the lookup's
\* addresses: same length, and every address as often as in the lookup.
C9_ShuffleIsPermutation ==
    \A c \in Calls :
        (Done(c) /\ out[c].rng # NoRng /\ out[c].lookup.ok)
            => /\ out[c].result.ok
               /\ Len(Addrs(c)) = Len(Ips(c))
               /\ \A ip \in IPs :
                    Count([n \in 1..Len(Addrs(c)) |-> Addrs(c)[n].ip], ip) = Count(Ips(c), ip)

\* a shuffled resolve returned the addresses in another order than the lookup
C9_Witness ==
    \E c \in Calls :
        /\ Done(c) /\ out[c].rng # NoRng /\ out[c].lookup.ok
        /\ \E n \in 1..Len(Ips(c)) : Addrs(c)[n].ip # Ips(c)[n]

\* C10: every socket address of a successful result has port 0 and the IP of
\* an address of the lookup.
C10_PortZero ==
    \A c \in Calls :
        (Done(c) /\ out[c].result.ok)
            => \A n \in 1..Len(Addrs(c)) :
                /\ Addrs(c)[n].port = 0
                /\ \E m \in 1..Len(Ips(c)) : Addrs(c)[n].ip = Ips(c)[m]

\* a shuffled resolve returned as many addresses as a lookup can hold, with
\* more than one IP among them
C10_Witness ==
    \E c \in Calls :
        /\ Done(c) /\ out[c].result.ok /\ out[c].rng # NoRng
        /\ Len(Addrs(c)) = MaxAddrs
        /\ \E n, m \in 1..Len(Addrs(c)) : Addrs(c)[n].ip # Addrs(c)[m].ip

\* C11: a failed system discovery falls back to the default configuration and
\* still yields a resolver: init_resolver on the fallback path returns a
\* resolver on the default configuration, and every completed cell holds a
\* resolver built on the system or on the default configuration.
C11_FallbackBuilds ==
    /\ \A k \in Cells :
        once[k] = "COMPLETE" => Filled(k) /\ cell[k].config \in {"system", "default"}
    /\ \A c \in Calls :
        pc[c] = "init" =>
            LET r == init_resolver(hr[c], FALSE, <<hr[c].state, 1>>)
            IN  r # NoResolver /\ r.config = "default"

\* a cell was filled by a construction whose system discovery had failed, for
\* a value that carries options
C11_Witness ==
    \E k \in Cells, c \in Calls :
        /\ Filled(k) /\ cell[k].config = "default"
        /\ pc[c] = "await" /\ hr[c].state = k /\ hr[c].opts # NoOpts /\ built[k] = 1

\* C12: construction is lazy: no step that creates, clones or configures a
\* value, and no step that makes a future, changes a cell or its Once; a cell
\* changes only in the step in which a polled future's init_resolver returns.
C12_LazyConstruction ==
    [][/\ (inst' # inst \/ \E c \in Calls : pc[c] = "idle" /\ pc'[c] = "created")
            => (cell' = cell /\ once' = once)
       /\ \A k \in Cells :
            cell'[k] # cell[k]
                => \E c \in Calls : pc[c] = "init" /\ pc'[c] = "await" /\ hr[c].state = k]_vars

\* values were created, cloned and configured and a future was made but not
\* polled, and every cell is still empty
C12_Witness ==
    /\ nconfig = MaxConfig
    /\ \E i, j \in Insts : i # j /\ Used(i) /\ Used(j) /\ inst[i].opts # NoOpts
    /\ \E c \in Calls : pc[c] = "created" /\ hr[c].opts # NoOpts
    /\ \A k \in Cells : once[k] = "INCOMPLETE" /\ ~Filled(k)

\* C13: a cell is filled exactly when its Once is complete, and a filled cell
\* never changes again: not to empty, not to another resolver.
C13_FilledOnce ==
    /\ [](\A k \in Cells : Filled(k) <=> once[k] = "COMPLETE")
    /\ [][\A k \in Cells : Filled(k) => cell'[k] = cell[k]]_vars

\* the cell is filled, a resolve on it completed with a failed lookup and the
\* other future slots are free again
C13_Witness ==
    \E c \in Calls :
        /\ Filled(1) /\ built[1] = 1
        /\ Done(c) /\ ~out[c].lookup.ok
        /\ \A d \in Calls : d # c => pc[d] = "idle"

\* C14: a resolve future suspends, and so can be dropped unfinished, at one
\* point only, the await of the lookup. A first poll that starts does not
\* leave the future before it holds the resolver and has issued the lookup
\* (or unwinds); the step that ends the await forms the whole result, shuffle
\* and port mapping included, and completes the future.
C14_SingleSuspension ==
    [][\A c \in Calls :
        /\ pc[c] = "init" => pc'[c] \in {"init", "await", "panicked"}
        /\ (pc[c] = "created" /\ pc'[c] # "created")
            => /\ pc'[c] \in {"init", "await", "idle"}
               /\ pc'[c] = "await" => resolver'[c] = cell[hr[c].state] /\ Filled(hr[c].state)
        /\ (pc[c] # "await" /\ pc'[c] = "await") => resolver'[c] # NoResolver
        /\ (pc[c] = "await" /\ pc'[c] # "await")
            => \/ pc'[c] = "idle" /\ out'[c] = out[c]
               \/ /\ pc'[c] = "done"
                  /\ out'[c].result = ResolveBody(hr[c], out'[c].lookup).result
                  /\ out'[c].lookup.ok => out'[c].result.ok]_vars

\* one future is suspended at the await holding the resolver while another,
\* resumed from it, has completed with shuffled, port-mapped addresses
C14_Witness ==
    \E c, d \in Calls :
        /\ pc[c] = "await" /\ resolver[c] # NoResolver /\ hr[c].rng # NoRng
        /\ Done(d) /\ out[d].result.ok /\ Len(Addrs(d)) = MaxAddrs
        /\ out[d].rngAfter # out[d].rng

\* C15: each resolve call shuffles with its own copy of the generator: the
\* copy a live call holds is the generator of the value it was made from, and
\* the step in which one call shuffles changes neither the generator of any
\* value nor the copy of any other call.
C15_PrivateGenerator ==
    /\ [](\A c \in Calls : pc[c] \in {"created", "init", "await"}
            => \E i \in Insts : hr[c].rng = inst[i].rng)
    /\ [][\A c \in Calls :
            (pc[c] = "await" /\ pc'[c] = "done")
                => /\ inst' = inst
                   /\ \A d \in Calls : d # c => hr'[d] = hr[d]]_vars

\* a call has shuffled and stepped its generator while another call, made from
\* the same generator state, is still waiting with that state untouched
C15_Witness ==
    \E c, d \in Calls :
        /\ c # d
        /\ Done(c) /\ out[c].rng # NoRng /\ out[c].rngAfter # out[c].rng
        /\ pc[d] = "await" /\ hr[d].rng = out[c].rng

\* C16: under fair scheduling the initialisation race does not deadlock: a
\* running initialisation ends, a caller that waits on a cell the winner has
\* published goes on to its lookup, and a call whose lookup is under way
\* returns a result (or its future is dropped).
C16_RaceProgress ==
    /\ \A k \in Cells : (once[k] = "RUNNING") ~> (once[k] \in {"COMPLETE", "POISONED"})
    /\ \A c \in Calls :
        /\ (pc[c] = "created" /\ Filled(hr[c].state)) ~> (pc[c] # "created")
        /\ (pc[c] = "await") ~> (pc[c] \in {"done", "idle"})

\* a caller that lost the race waits in get_or_init while the winner runs
\* init_resolver on the same cell
C16_Witness ==
    \E c, d \in Calls :
        /\ pc[d] = "init" /\ pc[c] = "created"
        /\ hr[c].state = hr[d].state /\ once[hr[d].state] = "RUNNING"
        /\ built[hr[d].state] = 0

\* C17: a value derived from another by clone, with_options or with_shuffle
\* holds the cell of the value it comes from, so values of one origin share
\* one cell; a call past get_or_init holds the resolver of that cell, whatever
\* options its value carries.
C17_SharedCell ==
    /\ \A i \in Insts : Used(i) => inst[i].state = origin[i]
    /\ \A i, j \in Insts :
        (Used(i) /\ Used(j) /\ origin[i] = origin[j]) => inst[i].state = inst[j].state
    /\ \A c \in Calls :
        /\ pc[c] \in {"created", "init", "await"}
            => \E i \in Insts : Used(i) /\ hr[c].state = origin[i]
        /\ pc[c] = "await" => Filled(hr[c].state) /\ resolver[c] = cell[hr[c].state]

\* two values of one origin hold different options; the cell was filled, one
\* of them was given its options afterwards, and a call made from it holds
\* the resolver of the shared cell
C17_Witness ==
    \E i, j \in Insts, c \in Calls :
        /\ i # j /\ Used(i) /\ Used(j) /\ origin[i] = origin[j]
        /\ inst[i].opts # inst[j].opts /\ inst[j].opts # NoOpts /\ late[j]
        /\ built[origin[j]] = 1
        /\ pc[c] = "await" /\ hr[c].opts = inst[j].opts
        /\ resolver[c] = cell[origin[i]]

\* C18: resolve changes no field of the value it is called on, and two
\* completed calls made with the same generator state whose lookups returned
\* the same sequence return the same addresses in the same order.
C18_ResolveKeepsSelf ==
    /\ [][(\E c \in Calls : pc'[c] # pc[c]) => inst' = inst]_vars
    /\ [](\A c, d \in Calls :
            (Done(c) /\ Done(d) /\ out[c].lookup = out[d].lookup)
                => /\ out[c].rng = out[d].rng
                   /\ out[c].result = out[d].result)

\* two calls on a shuffling value have both completed on the same answer of
\* MaxAddrs distinct addresses, with the same reordered result
C18_Witness ==
    \E c, d \in Calls :
        /\ c # d /\ Done(c) /\ Done(d)
        /\ out[c].rng # NoRng /\ out[c].rngAfter # out[c].rng
        /\ out[c].lookup.ok /\ out[c].lookup = out[d].lookup
        /\ Len(Ips(c)) = MaxAddrs /\ Ips(c)[1] # Ips(c)[2]
        /\ Addrs(c) = Addrs(d)

====
